---- MODULE Spec2Model ----
(***************************************************************************)
(* A model of sssftp: the bubbletea model of src/tui.go (remote directory  *)
(* navigation and single-file download over an sftp client) and the        *)
(* connection set-up of src/unnamed/part_000 (key loading, host-key        *)
(* verification, dial).                                                    *)
(*                                                                         *)
(* Remote paths are sequences of names (<<>> is the remote root "/").      *)
(* A Go error is a string, NoErr standing for nil.                         *)
(***************************************************************************)
EXTENDS Integers, Sequences, FiniteSets, TLC

VARIABLES m, remote, local, pc, last, boot

vars == <<m, remote, local, pc, last, boot>>

(***************************************************************************)
(* Bounds of the model.                                                    *)
(***************************************************************************)
\* the most bytes io.Copy writes before a copy fault
MaxLen == 2

NoErr == "nil"

Min(a, b) == IF a < b THEN a ELSE b

(***************************************************************************)
(* The remote filesystem the sftp server exposes.  The directories are     *)
(* fixed: /, /home, /home/user and the empty /home/user/docs.  The regular *)
(* files /motd and /home/user/notes.txt may each be absent.                *)
(***************************************************************************)
Root == <<>>

HomeUser == <<"home", "user">>

RemoteDirs == {Root, <<"home">>, HomeUser, <<"home", "user", "docs">>}

RemoteFiles == {<<"motd">>, <<"home", "user", "notes.txt">>}

LocalNames == {"motd", "notes.txt"}

NoFile == [exists |-> FALSE, data |-> <<>>]

FileOf(data) == [exists |-> TRUE, data |-> data]

\* the content of a remote file while the program browses
BrowseData == <<1, 2>>

RemoteStates == [RemoteFiles -> {NoFile, FileOf(BrowseData)}]

\* fs.FileInfo of one remote directory record (item.rawValue); isNil marks
\* the nil rawValue of the ".." item
FileInfo(name, isDir, size) ==
    [isNil |-> FALSE, name |-> name, isDir |-> isDir, size |-> size]

NilInfo == [isNil |-> TRUE, name |-> "", isDir |-> FALSE, size |-> 0]

\* the names a directory can hold, in the server's order: first its one
\* subdirectory, then its one file
SubdirsOf(dirPath) ==
    IF dirPath = Root THEN <<"home">>
    ELSE IF dirPath = <<"home">> THEN <<"user">>
    ELSE IF dirPath = HomeUser THEN <<"docs">>
    ELSE <<>>

FilesOf(dirPath) ==
    IF dirPath = Root THEN <<"motd">>
    ELSE IF dirPath = HomeUser THEN <<"notes.txt">>
    ELSE <<>>

\* the server's answer to a directory read of dirPath
ServerListing(fs, dirPath) ==
    LET present(name) == fs[Append(dirPath, name)].exists
    IN [i \in 1..Len(SubdirsOf(dirPath)) |-> FileInfo(SubdirsOf(dirPath)[i], TRUE, 0)]
       \o [i \in 1..Len(SelectSeq(FilesOf(dirPath), present)) |->
             FileInfo(SelectSeq(FilesOf(dirPath), present)[i], FALSE,
                      Len(fs[Append(dirPath, SelectSeq(FilesOf(dirPath), present)[i])].data))]

(***************************************************************************)
(* sftp client calls (github.com/pkg/sftp), as used by tui.go.             *)
(***************************************************************************)
\* sftp.Client.Join is path.Join: the cleaned concatenation; ".." drops the
\* last element and the parent of the root is the root
Join(dir, name) ==
    IF name = ".."
    THEN (IF Len(dir) = 0 THEN dir ELSE SubSeq(dir, 1, Len(dir) - 1))
    ELSE Append(dir, name)

\* sftp.Client.RealPath: the server's canonical path, or an error (a path
\* that does not name a directory of the server, or a remote I/O error)
RealPath(path, fault) ==
    IF fault = "realpath" \/ path \notin RemoteDirs
    THEN [path |-> <<>>, err |-> "realpath failed"]
    ELSE [path |-> path, err |-> NoErr]

\* sftp.Client.ReadDir: the listing, or an error
ReadDir(fs, dirPath, fault) ==
    IF fault = "readdir" \/ dirPath \notin RemoteDirs
    THEN [list |-> <<>>, err |-> "readdir failed"]
    ELSE [list |-> ServerListing(fs, dirPath), err |-> NoErr]

\* handleError(err): the process is aborted on a non-nil error
handleError(err) == err # NoErr

(***************************************************************************)
(* The bubbletea model (type model) and the list it holds.  The visual     *)
(* decoration of a title (icon, colour) is left out: a title is the name.  *)
(***************************************************************************)
\* docStyle.GetFrameSize() of Margin(1, 2): horizontal 4, vertical 2
FrameH == 4

FrameV == 2

WindowSizes == {[Width |-> 80, Height |-> 24]}

NoStatus == [kind |-> "none", name |-> ""]

StatusMsg(kind, name) == [kind |-> kind, name |-> name]

Op(name, via) == [op |-> name, via |-> via]

\* the calls that go to the remote session
SessionOps == {"RealPath", "ReadDir", "Open"}

\* (mutant) the listing without the ".." item
createItemListModel_noParent(fs, dirPath, fault) ==
    LET rd == ReadDir(fs, dirPath, fault)
    IN IF handleError(rd.err)
       THEN [items |-> <<>>, aborted |-> TRUE]
       ELSE [items |-> [i \in 1..Len(rd.list) |->
                          [title |-> rd.list[i].name, rawValue |-> rd.list[i]]],
             aborted |-> FALSE]

\* createItemListModel(dirPath, sftpClient): the ".." item, then one item per
\* record of the listing, in its order; aborted when handleError stops the
\* process on a failed listing
createItemListModel(fs, dirPath, fault) ==
    LET rd == ReadDir(fs, dirPath, fault)
    IN IF handleError(rd.err)
       THEN [items |-> <<>>, aborted |-> TRUE]
       ELSE [items |-> <<[title |-> "..", rawValue |-> NilInfo]>>
                       \o [i \in 1..Len(rd.list) |->
                             [title |-> rd.list[i].name, rawValue |-> rd.list[i]]],
             aborted |-> FALSE]

\* (mutant) the new items are merged into the old ones
SetItems_merges(mm, items) == [mm EXCEPT !.items = mm.items \o items]

\* list.Model.SetItems: the items are replaced as a whole; the list keeps its
\* index, which is not clamped to the new length
SetItems(mm, items) == [mm EXCEPT !.items = items]

\* list.Model.NewStatusMessage
NewStatusMessage(mm, status) == [mm EXCEPT !.status = status]

\* list.Model.SelectedItem: the item under the cursor, or nil
HasSelection(mm) == mm.cursor < Len(mm.items)

SelectedItem(mm) == mm.items[mm.cursor + 1]

\* (mutant) the resolved path is not stored in m.currentDir
moveDir_keepsDir(mm, selectedItemName, fs, fault) ==
    LET rp == RealPath(Join(mm.currentDir, selectedItemName), fault)
        cl == createItemListModel(fs, rp.path, fault)
    IN IF handleError(rp.err)
       THEN [m |-> mm, aborted |-> TRUE, cmds |-> <<>>,
             ops |-> <<Op("RealPath", "m.sftpClient")>>]
       ELSE IF cl.aborted
       THEN [m |-> mm, aborted |-> TRUE, cmds |-> <<>>,
             ops |-> <<Op("RealPath", "m.sftpClient"), Op("ReadDir", "sftpClient")>>]
       ELSE [m |-> NewStatusMessage(SetItems(mm, cl.items),
                                    StatusMsg("Entered", selectedItemName)),
             aborted |-> FALSE, cmds |-> <<"SetItems", "StatusMessage">>,
             ops |-> <<Op("RealPath", "m.sftpClient"), Op("ReadDir", "sftpClient")>>]

\* (mutant) the listing is left to a command that runs beside the event loop
moveDir_listsInCommand(mm, selectedItemName, fs, fault) ==
    LET rp == RealPath(Join(mm.currentDir, selectedItemName), fault)
    IN IF handleError(rp.err)
       THEN [m |-> mm, aborted |-> TRUE, cmds |-> <<>>,
             ops |-> <<Op("RealPath", "m.sftpClient")>>]
       ELSE [m |-> NewStatusMessage([mm EXCEPT !.currentDir = rp.path],
                                    StatusMsg("Entered", selectedItemName)),
             aborted |-> FALSE, cmds |-> <<"ReadDir", "StatusMessage">>,
             ops |-> <<Op("RealPath", "m.sftpClient")>>]

\* moveDir(&m, selectedItemName, cmds)
moveDir(mm, selectedItemName, fs, fault) ==
    LET rp == RealPath(Join(mm.currentDir, selectedItemName), fault)
        m1 == [mm EXCEPT !.currentDir = rp.path]
        cl == createItemListModel(fs, rp.path, fault)
    IN IF handleError(rp.err)
       THEN [m |-> mm, aborted |-> TRUE, cmds |-> <<>>,
             ops |-> <<Op("RealPath", "m.sftpClient")>>]
       ELSE IF cl.aborted
       THEN [m |-> m1, aborted |-> TRUE, cmds |-> <<>>,
             ops |-> <<Op("RealPath", "m.sftpClient"), Op("ReadDir", "sftpClient")>>]
       ELSE [m |-> NewStatusMessage(SetItems(m1, cl.items),
                                    StatusMsg("Entered", selectedItemName)),
             aborted |-> FALSE, cmds |-> <<"SetItems", "StatusMessage">>,
             ops |-> <<Op("RealPath", "m.sftpClient"), Op("ReadDir", "sftpClient")>>]

\* what one call of downloadFile did: the handles it opened, the Close calls
\* made on each (a Close on a handle that was never opened counts), its
\* error, and whether handleError stopped the process inside it
NoDownload ==
    [called |-> FALSE, filePath |-> <<>>, fileName |-> "", srcOpened |-> FALSE,
     dstOpened |-> FALSE, srcCloses |-> 0, dstCloses |-> 0, err |-> NoErr,
     aborted |-> FALSE]

\* io.Copy(destFile, srcFile) with a fault after n bytes: the bytes written
\* so far stay in the local file
Prefix(data, n) == SubSeq(data, 1, Min(n, Len(data)))

\* (mutant) the local file is opened without truncation
osCreate_keepsContent(loc, name) ==
    IF loc[name].exists THEN loc ELSE [loc EXCEPT ![name] = FileOf(<<>>)]

\* os.Create(filepath.Join(".", fileName)): the file of that name in the
\* working directory, created or truncated to no bytes
osCreate(loc, name) == [loc EXCEPT ![name] = FileOf(<<>>)]

\* the writes of io.Copy(destFile, srcFile): the bytes go to the file from
\* offset 0 on, over what the file holds there
Write(file, bytes) ==
    FileOf(bytes \o SubSeq(file.data, Len(bytes) + 1, Len(file.data)))

\* model.downloadFile(filePath, fileName).  fault names the call that fails
\* ("open", "create", "copy" or none), n the bytes copied before a copy
\* fault, unwind whether the abort of handleError runs the deferred calls
\* (a panic) or not (an exit).  The remote file is opened by the joined path
\* and the local one is created, truncated, under the file name.
downloadFile(filePath, fileName, fs, loc, fault, n, unwind) ==
    LET called == [NoDownload EXCEPT !.called = TRUE, !.filePath = filePath,
                                     !.fileName = fileName]
        src == Join(filePath, fileName)
        openErr == IF fault = "open" \/ src \notin RemoteFiles
                   THEN "open failed"
                   ELSE IF ~fs[src].exists THEN "file does not exist"
                   ELSE NoErr
        createErr == IF fault = "create" THEN "create failed" ELSE NoErr
        copyErr == IF fault = "copy" THEN "copy failed" ELSE NoErr
        opened == [called EXCEPT !.srcOpened = TRUE]
    IN IF handleError(openErr)
       THEN [dl |-> [called EXCEPT !.err = openErr, !.aborted = TRUE],
             local |-> loc]
       ELSE IF handleError(createErr)
       THEN [dl |-> [opened EXCEPT !.err = createErr, !.aborted = TRUE,
                                   !.dstCloses = IF unwind THEN 1 ELSE 0,
                                   !.srcCloses = IF unwind THEN 1 ELSE 0],
             local |-> loc]
       ELSE [dl |-> [opened EXCEPT !.dstOpened = TRUE, !.err = copyErr,
                                   !.dstCloses = 1, !.srcCloses = 1],
             local |-> [loc EXCEPT ![fileName] =
                          Write(osCreate(loc, fileName)[fileName],
                                IF copyErr # NoErr THEN Prefix(fs[src].data, n)
                                ELSE fs[src].data)]]

(***************************************************************************)
(* Connection set-up (src/unnamed/part_000).  A key file is described by   *)
(* what pem.Decode finds in it: whether there is a block at all, the       *)
(* block's type, whether it carries the DEK-Info header of an encrypted    *)
(* block, the passphrase it was encrypted with, and what its (decrypted)   *)
(* bytes hold.                                                             *)
(***************************************************************************)
KeyTypes ==
    {"RSA PRIVATE KEY", "EC PRIVATE KEY", "DSA PRIVATE KEY", "PRIVATE KEY",
     "OPENSSH PRIVATE KEY", "CERTIFICATE"}

\* what the bytes of a block hold: a key in one of the encodings, an EC key
\* on a curve ssh has no signer for, or nothing parseable
Bodies == {"pkcs1", "sec1", "sec1-p224", "dsa", "pkcs8", "openssh", "garbage"}

Passwords == {"", "secret123", "wrong"}

NoBlock ==
    [found |-> FALSE, Type |-> "", encrypted |-> FALSE, passphrase |-> "",
     body |-> "garbage"]

PemFiles ==
    {NoBlock}
    \cup [found : {TRUE}, Type : KeyTypes, encrypted : {FALSE},
          passphrase : {""}, body : Bodies]
    \cup [found : {TRUE}, Type : KeyTypes, encrypted : {TRUE},
          passphrase : {"", "secret123"}, body : Bodies]

NoSigner == "none"

Failed(err, tag) == [signer |-> NoSigner, err |-> err, tag |-> tag]

\* x509.DecryptPEMBlock: the bytes under the right password; under a wrong
\* one x509.IncorrectPasswordError when the padding check detects it and,
\* as the format cannot always tell, noise without an error when it does not
DecryptPEMBlock(block, password, detected) ==
    IF password = block.passphrase THEN [bytes |-> block.body, err |-> NoErr]
    ELSE IF detected THEN [bytes |-> "garbage", err |-> "x509: decryption password incorrect"]
    ELSE [bytes |-> "garbage", err |-> NoErr]

\* (mutant) a type that is none of the three is decoded as an RSA key
parsePemBlock_openDispatch(Type, bytes) ==
    IF Type = "EC PRIVATE KEY"
    THEN (IF bytes = "sec1" THEN [key |-> "ecdsa", err |-> NoErr, tag |-> ""]
          ELSE IF bytes = "sec1-p224"
          THEN [key |-> "ecdsa-p224", err |-> NoErr, tag |-> ""]
          ELSE [key |-> "", err |-> "parsing EC private key failed", tag |-> ""])
    ELSE IF Type = "DSA PRIVATE KEY"
    THEN (IF bytes = "dsa" THEN [key |-> "dsa", err |-> NoErr, tag |-> ""]
          ELSE [key |-> "", err |-> "parsing DSA private key failed", tag |-> ""])
    ELSE (IF bytes = "pkcs1" THEN [key |-> "rsa", err |-> NoErr, tag |-> ""]
          ELSE [key |-> "", err |-> "parsing PKCS private key failed", tag |-> ""])

\* parsePemBlock(block): the decoder of the block's type over its bytes
parsePemBlock(Type, bytes) ==
    IF Type = "RSA PRIVATE KEY"
    THEN (IF bytes = "pkcs1" THEN [key |-> "rsa", err |-> NoErr, tag |-> ""]
          ELSE [key |-> "", err |-> "parsing PKCS private key failed", tag |-> ""])
    ELSE IF Type = "EC PRIVATE KEY"
    THEN (IF bytes = "sec1" THEN [key |-> "ecdsa", err |-> NoErr, tag |-> ""]
          ELSE IF bytes = "sec1-p224"
          THEN [key |-> "ecdsa-p224", err |-> NoErr, tag |-> ""]
          ELSE [key |-> "", err |-> "parsing EC private key failed", tag |-> ""])
    ELSE IF Type = "DSA PRIVATE KEY"
    THEN (IF bytes = "dsa" THEN [key |-> "dsa", err |-> NoErr, tag |-> ""]
          ELSE [key |-> "", err |-> "parsing DSA private key failed", tag |-> ""])
    ELSE [key |-> "", err |-> "parsing private key failed, unsupported key type",
          tag |-> Type]

\* ssh.NewSignerFromKey: a signer for an RSA, DSA or P-256/384/521 ECDSA key
NewSignerFromKey(key) ==
    IF key \in {"rsa", "ecdsa", "dsa", "ed25519"}
    THEN [signer |-> key, err |-> NoErr]
    ELSE [signer |-> NoSigner, err |-> "ssh: unsupported key"]

\* ssh.ParsePrivateKey over the whole file: its own dispatch on the block's
\* type, which also knows PKCS#8 and OpenSSH blocks, then the signer
ParsePrivateKey(block) ==
    LET key == IF block.Type = "RSA PRIVATE KEY" /\ block.body = "pkcs1" THEN "rsa"
               ELSE IF block.Type = "EC PRIVATE KEY" /\ block.body = "sec1" THEN "ecdsa"
               ELSE IF block.Type = "EC PRIVATE KEY" /\ block.body = "sec1-p224"
                    THEN "ecdsa-p224"
               ELSE IF block.Type = "DSA PRIVATE KEY" /\ block.body = "dsa" THEN "dsa"
               ELSE IF block.Type = "PRIVATE KEY" /\ block.body = "pkcs8" THEN "rsa"
               ELSE IF block.Type = "OPENSSH PRIVATE KEY" /\ block.body = "openssh"
                    THEN "ed25519"
               ELSE ""
        known == block.Type \in KeyTypes \ {"CERTIFICATE"}
    IN IF ~known THEN Failed("ssh: unsupported key type", block.Type)
       ELSE IF key = "" THEN Failed("ssh: key parse failed", "")
       ELSE [signer |-> NewSignerFromKey(key).signer,
             err |-> NewSignerFromKey(key).err, tag |-> ""]

\* (mutant) the error of the decryption is not checked
signerFromPem_uncheckedDecrypt(pem, password, detected) ==
    LET dec == DecryptPEMBlock(pem, password, detected)
        parsed == parsePemBlock(pem.Type, dec.bytes)
        made == NewSignerFromKey(parsed.key)
        plain == ParsePrivateKey(pem)
    IN IF ~pem.found THEN Failed("pem decode failed, no key found", "")
       ELSE IF pem.encrypted
       THEN (IF parsed.err # NoErr THEN Failed(parsed.err, parsed.tag)
             ELSE IF made.err # NoErr
             THEN Failed("creating signer from encrypted key failed", "")
             ELSE [signer |-> made.signer, err |-> NoErr, tag |-> ""])
       ELSE (IF plain.err = "ssh: unsupported key type"
             THEN Failed("parsing plain private key failed ssh: unsupported key type",
                         plain.tag)
             ELSE IF plain.err # NoErr
             THEN Failed("parsing plain private key failed", "")
             ELSE [signer |-> plain.signer, err |-> NoErr, tag |-> ""])

\* (mutant) the block is decrypted whenever a password is given
signerFromPem_decryptsOnPassword(pem, password, detected) ==
    LET dec == DecryptPEMBlock(pem, password, detected)
        parsed == parsePemBlock(pem.Type, dec.bytes)
        made == NewSignerFromKey(parsed.key)
        plain == ParsePrivateKey(pem)
    IN IF ~pem.found THEN Failed("pem decode failed, no key found", "")
       ELSE IF pem.encrypted \/ password # ""
       THEN (IF dec.err # NoErr THEN Failed("decrypting PEM block failed", "")
             ELSE IF parsed.err # NoErr THEN Failed(parsed.err, parsed.tag)
             ELSE IF made.err # NoErr
             THEN Failed("creating signer from encrypted key failed", "")
             ELSE [signer |-> made.signer, err |-> NoErr, tag |-> ""])
       ELSE (IF plain.err = "ssh: unsupported key type"
             THEN Failed("parsing plain private key failed ssh: unsupported key type",
                         plain.tag)
             ELSE IF plain.err # NoErr
             THEN Failed("parsing plain private key failed", "")
             ELSE [signer |-> plain.signer, err |-> NoErr, tag |-> ""])

\* signerFromPem(pemBytes, password)
signerFromPem(pem, password, detected) ==
    LET dec == DecryptPEMBlock(pem, password, detected)
        parsed == parsePemBlock(pem.Type, dec.bytes)
        made == NewSignerFromKey(parsed.key)
        plain == ParsePrivateKey(pem)
    IN IF ~pem.found THEN Failed("pem decode failed, no key found", "")
       ELSE IF pem.encrypted
       THEN (IF dec.err # NoErr THEN Failed("decrypting PEM block failed", "")
             ELSE IF parsed.err # NoErr THEN Failed(parsed.err, parsed.tag)
             ELSE IF made.err # NoErr
             THEN Failed("creating signer from encrypted key failed", "")
             ELSE [signer |-> made.signer, err |-> NoErr, tag |-> ""])
       ELSE (IF plain.err = "ssh: unsupported key type"
             THEN Failed("parsing plain private key failed ssh: unsupported key type",
                         plain.tag)
             ELSE IF plain.err # NoErr
             THEN Failed("parsing plain private key failed", "")
             ELSE [signer |-> plain.signer, err |-> NoErr, tag |-> ""])

\* knownhosts.New(knownHostPath): the callback over the registry, or an error
KnownHostsNew(readable) ==
    IF readable THEN [callback |-> "knownhosts", err |-> NoErr]
    ELSE [callback |-> "none", err |-> "knownhosts: unreadable"]

\* what the callback of the configuration answers for the presented key
HostKeyVerdict(callback, hostKnown) ==
    IF callback = "knownhosts" THEN (IF hostKnown THEN "accept" ELSE "reject")
    ELSE IF callback = "insecure" THEN "accept"
    ELSE "nocallback"

\* ssh.Dial: the TCP connection, then the handshake, in which the host key
\* callback of the configuration decides on the presented key, then the
\* public-key authentication
Dial(config, net) ==
    LET verdict == HostKeyVerdict(config.HostKeyCallback, net.hostKnown)
    IN IF ~net.reachable
       THEN [conn |-> FALSE, verdict |-> "notasked", err |-> "dial tcp failed"]
       ELSE IF verdict # "accept"
       THEN [conn |-> FALSE, verdict |-> verdict, err |-> "ssh: handshake failed"]
       ELSE IF ~net.authorized
       THEN [conn |-> FALSE, verdict |-> verdict, err |-> "ssh: unable to authenticate"]
       ELSE [conn |-> TRUE, verdict |-> verdict, err |-> NoErr]

NotLoaded == Failed("not loaded", "")

\* (mutant) the configuration carries ssh.InsecureIgnoreHostKey()
ConnectSSH_insecure(in) ==
    LET loaded == signerFromPem(in.pem, in.password, in.detected)
        kh == KnownHostsNew(in.registryReadable)
        config == [Auth |-> loaded.signer, HostKeyCallback |-> "insecure"]
        dialled == Dial(config, in.net)
        stopped(stage, sg, cb) ==
            [status |-> "aborted", stage |-> stage, signer |-> sg,
             callback |-> cb, verdict |-> "notasked"]
    IN IF ~in.fileReadable THEN stopped("readfile", NotLoaded, "none")
       ELSE IF handleError(loaded.err) THEN stopped("key", loaded, "none")
       ELSE IF kh.err # NoErr THEN stopped("knownhosts", loaded, "none")
       ELSE IF dialled.err # NoErr
       THEN [status |-> "aborted", stage |-> "dial", signer |-> loaded,
             callback |-> "insecure", verdict |-> dialled.verdict]
       ELSE [status |-> "connected", stage |-> "done", signer |-> loaded,
             callback |-> "insecure", verdict |-> dialled.verdict]

\* ConnectSSH(username, privateKeyPath, privateKeyPassword, host, port,
\* knownHostPath): the connection, or the stage at which the process stopped
ConnectSSH(in) ==
    LET loaded == signerFromPem(in.pem, in.password, in.detected)
        kh == KnownHostsNew(in.registryReadable)
        config == [Auth |-> loaded.signer, HostKeyCallback |-> kh.callback]
        dialled == Dial(config, in.net)
        stopped(stage, sg, cb) ==
            [status |-> "aborted", stage |-> stage, signer |-> sg,
             callback |-> cb, verdict |-> "notasked"]
    IN IF ~in.fileReadable THEN stopped("readfile", NotLoaded, "none")
       ELSE IF handleError(loaded.err) THEN stopped("key", loaded, "none")
       ELSE IF kh.err # NoErr THEN stopped("knownhosts", loaded, "none")
       ELSE IF dialled.err # NoErr
       THEN [status |-> "aborted", stage |-> "dial", signer |-> loaded,
             callback |-> kh.callback, verdict |-> dialled.verdict]
       ELSE [status |-> "connected", stage |-> "done", signer |-> loaded,
             callback |-> kh.callback, verdict |-> dialled.verdict]

Networks == [reachable : BOOLEAN, hostKnown : BOOLEAN, authorized : BOOLEAN]

ConnectInputs ==
    [pem : PemFiles, password : Passwords, detected : BOOLEAN,
     fileReadable : BOOLEAN, registryReadable : BOOLEAN, net : Networks]

NoResult ==
    [status |-> "none", stage |-> "none", signer |-> NotLoaded,
     callback |-> "none", verdict |-> "notasked"]

(***************************************************************************)
(* RunCommand (src/unnamed/part_000): one command over a session channel   *)
(* of the connection.  The remote side is described by what the command    *)
(* writes to its standard output, its exit status, and whether the         *)
(* transport breaks (after how many bytes) before the command has exited.  *)
(***************************************************************************)
Outputs == {<<>>, <<"h", "i", "LF">>}

ExitStatuses == {0, 1}

RunInputs ==
    [sessionOk : BOOLEAN, stdout : Outputs, exit : ExitStatuses,
     broken : BOOLEAN, received : 0..MaxLen]

\* ssh.Client.NewSession: a channel of the connection, or an error
NewSession(ok) ==
    IF ok THEN [opened |-> TRUE, err |-> NoErr]
    ELSE [opened |-> FALSE, err |-> "ssh: open channel failed"]

\* ssh.Session.Output(cmd): the standard output received, with an error when
\* the transport broke or the command exited with a status other than zero
SessionOutput(in) ==
    IF in.broken
    THEN [output |-> SubSeq(in.stdout, 1, Min(in.received, Len(in.stdout))),
          err |-> "ssh: transport broken"]
    ELSE IF in.exit # 0
    THEN [output |-> in.stdout, err |-> "Process exited with status 1"]
    ELSE [output |-> in.stdout, err |-> NoErr]

\* (mutant) the session is not closed
RunCommand_leaksSession(in) ==
    LET session == NewSession(in.sessionOk)
        got == SessionOutput(in)
    IN IF handleError(session.err)
       THEN [status |-> "aborted", opened |-> 0, closes |-> 0, output |-> <<>>,
             err |-> session.err]
       ELSE [status |-> "returned", opened |-> 1, closes |-> 0,
             output |-> got.output, err |-> got.err]

\* (mutant) the error of session.Output is dropped
RunCommand_dropsError(in) ==
    LET session == NewSession(in.sessionOk)
        got == SessionOutput(in)
    IN IF handleError(session.err)
       THEN [status |-> "aborted", opened |-> 0, closes |-> 0, output |-> <<>>,
             err |-> session.err]
       ELSE [status |-> "returned", opened |-> 1, closes |-> 1,
             output |-> got.output, err |-> NoErr]

\* RunCommand(cmd, sshClient): handleError stops the process when no session
\* can be opened, before the Close is deferred; otherwise the deferred Close
\* runs once as the call returns the output and the error of session.Output
RunCommand(in) ==
    LET session == NewSession(in.sessionOk)
        got == SessionOutput(in)
    IN IF handleError(session.err)
       THEN [status |-> "aborted", opened |-> 0, closes |-> 0, output |-> <<>>,
             err |-> session.err]
       ELSE [status |-> "returned", opened |-> 1, closes |-> 1,
             output |-> got.output, err |-> got.err]

NoRun ==
    [called |-> FALSE,
     in |-> [sessionOk |-> TRUE, stdout |-> <<>>, exit |-> 0, broken |-> FALSE,
             received |-> 0],
     out |-> [status |-> "none", opened |-> 0, closes |-> 0, output |-> <<>>,
              err |-> NoErr]]

\* the program once main has connected and started the event loop
BootInput ==
    [pem |-> [found |-> TRUE, Type |-> "RSA PRIVATE KEY", encrypted |-> FALSE,
              passphrase |-> "", body |-> "pkcs1"],
     password |-> "", detected |-> TRUE, fileReadable |-> TRUE,
     registryReadable |-> TRUE,
     net |-> [reachable |-> TRUE, hostKnown |-> TRUE, authorized |-> TRUE]]

Booted ==
    [phase |-> "ui", in |-> BootInput, out |-> ConnectSSH(BootInput),
     run |-> NoRun]

(***************************************************************************)
(* The program: the event loop delivers one message at a time to Update.   *)
(* pc is "running" while the loop runs, "quit" after tea.Quit, "aborted"   *)
(* after handleError or a panic stopped the process.  last records what    *)
(* the handler of the last message did.                                    *)
(***************************************************************************)
NavFaults == {"none", "realpath", "readdir"}

DownloadFaults == {"none", "open", "create", "copy"}

Handled(msg, from, sel, outcome, cmds, ops, dl) ==
    [msg |-> msg, from |-> from, sel |-> sel, outcome |-> outcome, cmds |-> cmds,
     ops |-> ops, dl |-> dl]

NothingHandled == Handled("none", Root, NilInfo, "none", <<>>, <<>>, NoDownload)

InitDirs == {Root, HomeUser}

Init ==
    /\ remote \in RemoteStates
    /\ local \in [LocalNames -> {NoFile, FileOf(<<2>>)}]
    /\ \E d \in InitDirs :
         m = [currentDir |-> d,
              items |-> createItemListModel(remote, d, "none").items,
              cursor |-> 0, status |-> NoStatus, spinner |-> FALSE,
              animating |-> FALSE, width |-> 0, height |-> 0]
    /\ pc = "running"
    /\ last = NothingHandled
    /\ boot = Booted

\* case "ctrl+c": return m, tea.Quit
KeyCtrlC ==
    /\ pc = "running"
    /\ pc' = "quit"
    /\ last' = Handled("ctrl+c", m.currentDir, NilInfo, "quit", <<"Quit">>, <<>>, NoDownload)
    /\ UNCHANGED <<m, remote, local, boot>>

\* (mutant) backspace re-enters the current directory
UpdateBackspace_sameDir(mm, fs, fault) == moveDir(mm, ".", fs, fault)

\* case "backspace": moveDir(&m, "..", cmds)
UpdateBackspace(mm, fs, fault) == moveDir(mm, "..", fs, fault)

KeyBackspace ==
    /\ pc = "running"
    /\ \E fault \in NavFaults :
         LET r == UpdateBackspace(m, remote, fault)
         IN /\ m' = r.m
            /\ pc' = IF r.aborted THEN "aborted" ELSE "running"
            /\ last' = Handled("backspace", m.currentDir, NilInfo,
                               IF r.aborted THEN "navfailed" ELSE "moved",
                               r.cmds, r.ops, NoDownload)
    /\ UNCHANGED <<remote, local, boot>>

\* m.progressBar.IncrPercent(.1): the bar starts animating towards its new
\* target (the returned command delivers progress.FrameMsg)
IncrPercent(mm) == [mm EXCEPT !.animating = TRUE]

\* (mutant) downloadFile is handed the joined path of the file as its directory
UpdateEnter_joinedPath(mm, fs, loc, navFault, dlFault, n, unwind) ==
    LET sel == SelectedItem(mm).rawValue
        mv == moveDir(mm, IF sel.isNil THEN ".." ELSE sel.name, fs, navFault)
        m1 == [NewStatusMessage(mm, StatusMsg("Downloading", sel.name))
                 EXCEPT !.spinner = ~mm.spinner]
        d == downloadFile(Join(mm.currentDir, sel.name), sel.name, fs, loc, dlFault, n, unwind)
    IN IF ~HasSelection(mm)
       THEN [m |-> mm, local |-> loc, pc |-> "aborted",
             last |-> Handled("enter", mm.currentDir, NilInfo, "panic", <<>>, <<>>, NoDownload)]
       ELSE IF sel.isNil \/ sel.isDir
       THEN [m |-> IF mv.aborted THEN mv.m ELSE IncrPercent(mv.m),
             local |-> loc,
             pc |-> IF mv.aborted THEN "aborted" ELSE "running",
             last |-> Handled("enter", mm.currentDir, sel,
                              IF mv.aborted THEN "navfailed" ELSE "moved",
                              IF mv.aborted THEN mv.cmds
                              ELSE mv.cmds \o <<"IncrPercent">>,
                              mv.ops, NoDownload)]
       ELSE IF handleError(d.dl.err)
       THEN [m |-> m1, local |-> d.local, pc |-> "aborted",
             last |-> Handled("enter", mm.currentDir, sel, "downloadfailed", <<>>,
                              <<Op("Open", "m.sftpClient")>>, d.dl)]
       ELSE [m |-> IncrPercent(m1), local |-> d.local, pc |-> "running",
             last |-> Handled("enter", mm.currentDir, sel, "downloaded",
                              <<"StatusMessage", "ToggleSpinner", "IncrPercent">>,
                              <<Op("Open", "m.sftpClient")>>, d.dl)]

\* case "enter", the selected item being "..", a directory or a file
UpdateEnter(mm, fs, loc, navFault, dlFault, n, unwind) ==
    LET sel == SelectedItem(mm).rawValue
        mv == moveDir(mm, IF sel.isNil THEN ".." ELSE sel.name, fs, navFault)
        m1 == [NewStatusMessage(mm, StatusMsg("Downloading", sel.name))
                 EXCEPT !.spinner = ~mm.spinner]
        d == downloadFile(mm.currentDir, sel.name, fs, loc, dlFault, n, unwind)
    IN IF ~HasSelection(mm)
       THEN [m |-> mm, local |-> loc, pc |-> "aborted",
             last |-> Handled("enter", mm.currentDir, NilInfo, "panic", <<>>, <<>>, NoDownload)]
       ELSE IF sel.isNil \/ sel.isDir
       THEN [m |-> IF mv.aborted THEN mv.m ELSE IncrPercent(mv.m),
             local |-> loc,
             pc |-> IF mv.aborted THEN "aborted" ELSE "running",
             last |-> Handled("enter", mm.currentDir, sel,
                              IF mv.aborted THEN "navfailed" ELSE "moved",
                              IF mv.aborted THEN mv.cmds
                              ELSE mv.cmds \o <<"IncrPercent">>,
                              mv.ops, NoDownload)]
       ELSE IF handleError(d.dl.err)
       THEN [m |-> m1, local |-> d.local, pc |-> "aborted",
             last |-> Handled("enter", mm.currentDir, sel, "downloadfailed", <<>>,
                              <<Op("Open", "m.sftpClient")>>, d.dl)]
       ELSE [m |-> IncrPercent(m1), local |-> d.local, pc |-> "running",
             last |-> Handled("enter", mm.currentDir, sel, "downloaded",
                              <<"StatusMessage", "ToggleSpinner", "IncrPercent">>,
                              <<Op("Open", "m.sftpClient")>>, d.dl)]

\* the faults that can show in the handling of "enter" from mm
EnterFaults(mm) ==
    IF ~HasSelection(mm)
    THEN {<<"none", "none", 0, FALSE>>}
    ELSE IF SelectedItem(mm).rawValue.isNil \/ SelectedItem(mm).rawValue.isDir
    THEN {<<f, "none", 0, FALSE>> : f \in NavFaults}
    ELSE {<<"none", f, 0, FALSE>> : f \in {"none", "open"}}
         \cup {<<"none", "create", 0, u>> : u \in BOOLEAN}
         \cup {<<"none", "copy", n, FALSE>> : n \in 0..MaxLen}

KeyEnter ==
    /\ pc = "running"
    /\ \E in \in EnterFaults(m) :
         LET navFault == in[1]
             dlFault == in[2]
             n == in[3]
             unwind == in[4]
             r == UpdateEnter(m, remote, local, navFault, dlFault, n, unwind)
         IN /\ m' = r.m
            /\ local' = r.local
            /\ pc' = r.pc
            /\ last' = r.last
    /\ UNCHANGED <<remote, boot>>

\* any other key goes to m.list.Update: "up" and "down" move the cursor
KeyOther ==
    /\ pc = "running"
    /\ \E key \in {"up", "down"} :
         /\ m' = [m EXCEPT !.cursor =
                     IF key = "up" THEN (IF m.cursor > 0 THEN m.cursor - 1 ELSE 0)
                     ELSE IF m.cursor + 1 < Len(m.items) THEN m.cursor + 1
                     ELSE IF Len(m.items) = 0 THEN 0 ELSE Len(m.items) - 1]
         /\ last' = Handled(key, m.currentDir, NilInfo, "list", <<>>, <<>>, NoDownload)
    /\ UNCHANGED <<remote, local, pc, boot>>

\* case progress.FrameMsg: the bar is updated (and is animating further or
\* has settled) and the spinner toggled
Frame ==
    /\ pc = "running"
    /\ m.animating
    /\ \E more \in BOOLEAN :
         m' = [m EXCEPT !.spinner = ~m.spinner, !.animating = more]
    /\ last' = Handled("frame", m.currentDir, NilInfo, "frame", <<"ToggleSpinner">>, <<>>,
                       NoDownload)
    /\ UNCHANGED <<remote, local, pc, boot>>

\* (mutant) a resize lists the current directory again
WindowSize_relists ==
    /\ pc = "running"
    /\ \E msg \in WindowSizes :
         m' = SetItems([m EXCEPT !.width = msg.Width - FrameH,
                                 !.height = msg.Height - FrameV],
                       createItemListModel(remote, m.currentDir, "none").items)
    /\ last' = Handled("resize", m.currentDir, NilInfo, "list", <<>>,
                       <<Op("ReadDir", "sftpClient")>>, NoDownload)
    /\ UNCHANGED <<remote, local, pc, boot>>

\* case tea.WindowSizeMsg: m.list.SetSize(msg.Width-h, msg.Height-v)
WindowSize ==
    /\ pc = "running"
    /\ \E msg \in WindowSizes :
         m' = [m EXCEPT !.width = msg.Width - FrameH, !.height = msg.Height - FrameV]
    /\ last' = Handled("resize", m.currentDir, NilInfo, "list", <<>>, <<>>, NoDownload)
    /\ UNCHANGED <<remote, local, pc, boot>>

\* the remote file is created, rewritten or removed by someone else
RemoteChange ==
    /\ pc = "running"
    /\ remote' \in RemoteStates \ {remote}
    /\ UNCHANGED <<m, local, pc, last, boot>>

Next ==
    \/ KeyCtrlC
    \/ KeyBackspace
    \/ KeyEnter
    \/ KeyOther
    \/ Frame
    \/ WindowSize
    \/ RemoteChange

Spec == Init /\ [][Next]_vars

(***************************************************************************)
(* Start-up: ConnectSSH applied to a key file, a password, a trusted-hosts *)
(* registry and a remote endpoint.                                         *)
(***************************************************************************)
(***************************************************************************)
(* downloadFile over drawn file contents: the remote file notes.txt and    *)
(* the local file of that name hold any bytes up to MaxLen, and "enter" is *)
(* pressed on the file.                                                    *)
(***************************************************************************)
Bytes == {1, 2}

Contents == UNION {[1..n -> Bytes] : n \in 0..MaxLen}

InitDownload ==
    /\ \E d \in Contents :
         remote = [f \in RemoteFiles |->
                     IF f = <<"home", "user", "notes.txt">> THEN FileOf(d)
                     ELSE NoFile]
    /\ \E old \in {NoFile} \cup {FileOf(d) : d \in Contents} :
         local = [f \in LocalNames |-> IF f = "notes.txt" THEN old ELSE NoFile]
    /\ m = [currentDir |-> HomeUser,
            items |-> createItemListModel(remote, HomeUser, "none").items,
            cursor |-> 2, status |-> NoStatus, spinner |-> FALSE,
            animating |-> FALSE, width |-> 0, height |-> 0]
    /\ pc = "running"
    /\ last = NothingHandled
    /\ boot = Booted

NextDownload == KeyEnter

SpecDownload == InitDownload /\ [][NextDownload]_vars

InitConnect ==
    /\ boot \in [phase : {"start"}, in : ConnectInputs, out : {NoResult},
                 run : {NoRun}]
    /\ m = [currentDir |-> Root, items |-> <<>>, cursor |-> 0,
            status |-> NoStatus, spinner |-> FALSE, animating |-> FALSE,
            width |-> 0, height |-> 0]
    /\ remote = [f \in RemoteFiles |-> NoFile]
    /\ local = [f \in LocalNames |-> NoFile]
    /\ pc = "start"
    /\ last = NothingHandled

Connect ==
    /\ boot.phase = "start"
    /\ boot' = [boot EXCEPT !.phase = "returned", !.out = ConnectSSH(boot.in)]
    /\ pc' = IF ConnectSSH(boot.in).status = "connected" THEN "connected"
             ELSE "aborted"
    /\ UNCHANGED <<m, remote, local, last>>

\* a command is run over the connection ConnectSSH returned
Run ==
    /\ boot.phase = "returned"
    /\ pc = "connected"
    /\ \E in \in RunInputs :
         /\ boot' = [boot EXCEPT !.run = [called |-> TRUE, in |-> in,
                                          out |-> RunCommand(in)]]
         /\ pc' = IF RunCommand(in).status = "aborted" THEN "aborted"
                  ELSE "connected"
    /\ UNCHANGED <<m, remote, local, last>>

NextConnect ==
    \/ Connect
    \/ Run

SpecConnect == InitConnect /\ [][NextConnect]_vars

(***************************************************************************)
(* Properties of the navigation model (checked under Spec).                *)
(***************************************************************************)
\* NavigationState: the current path and the items shown
NavState(mm) == <<mm.currentDir, mm.items>>

IsParentMarker(it) == it.rawValue.isNil

\* C1: a navigation transition (backspace, or enter on ".." or on a
\* directory) in which path resolution or the listing fails leaves
\* NavigationState as it was before the transition.
C1_FailedNavigationKeepsState ==
    [][((KeyBackspace \/ KeyEnter) /\ last'.outcome = "navfailed")
         => NavState(m') = NavState(m)]_vars

\* C2: after a successful enter on a directory the current path is the
\* canonical join of the previous path and the selected name (the previous
\* path extended by the name, a directory of the server) and the first item
\* is the synthetic parent marker.
C2_EnterDirectory ==
    [][(KeyEnter /\ last'.outcome = "moved" /\ HasSelection(m)
          /\ ~SelectedItem(m).rawValue.isNil /\ SelectedItem(m).rawValue.isDir)
         => /\ m'.currentDir = m.currentDir \o <<SelectedItem(m).rawValue.name>>
            /\ m'.currentDir \in RemoteDirs
            /\ Len(m'.items) >= 1
            /\ IsParentMarker(m'.items[1])]_vars

C2_Witness ==
    /\ last.msg = "enter" /\ last.outcome = "moved"
    /\ ~last.sel.isNil /\ last.sel.isDir
    /\ last.from = HomeUser /\ last.sel.name = "docs"
    /\ m.currentDir = <<"home", "user", "docs">>

\* C3: backspace at the remote root, the items being the listing of the
\* root of the remote filesystem as it is, leaves the current path at the
\* root and NavigationState as it was; so does every repetition.
C3_EnterParentAtRoot ==
    [][(KeyBackspace /\ m.currentDir = Root
          /\ m.items = createItemListModel(remote, Root, "none").items)
         => /\ m'.currentDir = Root
            /\ NavState(m') = NavState(m)]_vars

C3_Witness ==
    /\ last.msg = "backspace" /\ last.outcome = "moved" /\ last.from = Root
    /\ m.currentDir = Root
    /\ Len(m.items) = 3

\* C4: enter on a regular file leaves NavigationState unchanged, hands the
\* pair (current path, entry name) to downloadFile, sets the status message
\* "Downloading <name>", and resolves no path and reads no directory.
C4_EnterFile ==
    [][(KeyEnter /\ HasSelection(m) /\ ~SelectedItem(m).rawValue.isNil
          /\ ~SelectedItem(m).rawValue.isDir)
         => /\ NavState(m') = NavState(m)
            /\ last'.dl.called
            /\ last'.dl.filePath = m.currentDir
            /\ last'.dl.fileName = SelectedItem(m).rawValue.name
            /\ m'.status = StatusMsg("Downloading", SelectedItem(m).rawValue.name)
            /\ \A i \in 1..Len(last'.ops) :
                 last'.ops[i].op \notin {"RealPath", "ReadDir"}]_vars

C4_Witness ==
    /\ last.msg = "enter" /\ last.outcome = "downloaded"
    /\ last.sel.name = "notes.txt" /\ last.from = HomeUser
    /\ local["notes.txt"] = FileOf(BrowseData)

\* C5: a failed download is recoverable: the handler returns and the event
\* loop keeps running on the last consistent state.
C5_DownloadFailureRecoverable ==
    last.outcome = "downloadfailed"
        => /\ pc = "running"
           /\ m.currentDir = last.from

\* C10: every handle downloadFile opened is closed exactly once on every
\* exit path and no Close is made on a handle that was not opened.
C10_HandlesReleasedOnce ==
    last.dl.called
        => /\ last.dl.srcCloses = (IF last.dl.srcOpened THEN 1 ELSE 0)
           /\ last.dl.dstCloses = (IF last.dl.dstOpened THEN 1 ELSE 0)

(***************************************************************************)
(* Properties of the connection set-up (checked under SpecConnect).        *)
(***************************************************************************)
\* signerFromPem was applied to the key file
Loaded == boot.phase = "returned" /\ boot.in.fileReadable

LegacyTypes == {"RSA PRIVATE KEY", "EC PRIVATE KEY", "DSA PRIVATE KEY"}

\* the bytes of the block are a key of the block's type that ssh can sign with
WellFormed(pem) ==
    /\ pem.found
    /\ \/ pem.Type = "RSA PRIVATE KEY" /\ pem.body = "pkcs1"
       \/ pem.Type = "EC PRIVATE KEY" /\ pem.body = "sec1"
       \/ pem.Type = "DSA PRIVATE KEY" /\ pem.body = "dsa"
       \/ pem.Type = "PRIVATE KEY" /\ pem.body = "pkcs8" /\ ~pem.encrypted
       \/ pem.Type = "OPENSSH PRIVATE KEY" /\ pem.body = "openssh" /\ ~pem.encrypted

EncryptedLegacyKey(pem) ==
    pem.found /\ pem.encrypted /\ pem.Type \in LegacyTypes /\ WellFormed(pem)

C7_PasswordIgnoredForPlainKey ==
    (Loaded /\ boot.in.pem.found /\ ~boot.in.pem.encrypted)
        => /\ \A pw \in Passwords, d \in BOOLEAN :
                signerFromPem(boot.in.pem, pw, d) = boot.out.signer
           /\ WellFormed(boot.in.pem)
                => boot.out.signer.err = NoErr /\ boot.out.signer.signer # NoSigner

C7_Witness ==
    /\ Loaded /\ boot.in.pem.found /\ ~boot.in.pem.encrypted
    /\ WellFormed(boot.in.pem) /\ boot.in.password = "secret123"
    /\ boot.out.signer.signer = "rsa"

UnsupportedTypeErrors ==
    {"parsing private key failed, unsupported key type",
     "parsing plain private key failed ssh: unsupported key type"}

\* C8 as stated: a block whose type is none of RSA, EC, DSA fails with the
\* unsupported-type error naming the type.
C8_OnlyLegacyTypesLoad ==
    (Loaded /\ boot.in.pem.found /\ boot.in.pem.Type \notin LegacyTypes)
        => /\ boot.out.signer.signer = NoSigner
           /\ boot.out.signer.err \in UnsupportedTypeErrors
           /\ boot.out.signer.tag = boot.in.pem.Type

\* C8 (amended): an encrypted block that decrypts without an error and
\* whose type is none of RSA, EC, DSA fails with the unsupported-type error
\* of parsePemBlock naming the type; an unencrypted block fails with the
\* unsupported-type error naming the type when its type is none of RSA, EC,
\* DSA, PRIVATE KEY, OPENSSH PRIVATE KEY.
C8_UnsupportedTypeOnDispatch ==
    (Loaded /\ boot.in.pem.found)
        => /\ (/\ boot.in.pem.encrypted
               /\ boot.in.pem.Type \notin LegacyTypes
               /\ (boot.in.password = boot.in.pem.passphrase \/ ~boot.in.detected))
                => /\ boot.out.signer.signer = NoSigner
                   /\ boot.out.signer.err
                        = "parsing private key failed, unsupported key type"
                   /\ boot.out.signer.tag = boot.in.pem.Type
           /\ (/\ ~boot.in.pem.encrypted
               /\ boot.in.pem.Type \notin
                    LegacyTypes \cup {"PRIVATE KEY", "OPENSSH PRIVATE KEY"})
                => /\ boot.out.signer.signer = NoSigner
                   /\ boot.out.signer.err
                        = "parsing plain private key failed ssh: unsupported key type"
                   /\ boot.out.signer.tag = boot.in.pem.Type

C8_Witness ==
    /\ Loaded /\ boot.in.pem.found /\ boot.in.pem.encrypted
    /\ boot.in.pem.Type = "PRIVATE KEY" /\ boot.in.pem.body = "pkcs8"
    /\ boot.in.password = boot.in.pem.passphrase
    /\ boot.out.signer.tag = "PRIVATE KEY"

\* C9: ConnectSSH returns a connection only if the callback loaded from the
\* trusted-hosts registry accepted the presented host key; a host key the
\* registry does not hold never yields a connection.
C9_HostKeyVerified ==
    boot.phase = "returned"
        => /\ boot.out.status = "connected"
                => /\ boot.in.registryReadable
                   /\ boot.out.callback = "knownhosts"
                   /\ boot.out.verdict = "accept"
                   /\ boot.in.net.hostKnown
           /\ ~boot.in.net.hostKnown => boot.out.status = "aborted"

C9_Witness ==
    /\ boot.phase = "returned" /\ boot.out.status = "connected"
    /\ boot.out.verdict = "accept"

\* C11: a call of RunCommand opens at most one session channel, and the
\* channel it opened has been closed, once, when the call exits; when no
\* channel could be opened none is closed.
C11_SessionClosedOnExit ==
    boot.run.called
        => /\ boot.run.out.opened <= 1
           /\ boot.run.out.opened = (IF boot.run.in.sessionOk THEN 1 ELSE 0)
           /\ boot.run.out.closes = boot.run.out.opened

C11_Witness ==
    /\ boot.run.called /\ boot.run.in.broken
    /\ boot.run.out.opened = 1 /\ boot.run.out.closes = 1
    /\ boot.run.out.err = "ssh: transport broken"

\* C12: when the command exits with a status other than zero RunCommand
\* returns a non-nil error together with the output captured; when it exits
\* with status zero it returns a nil error and the full standard output.
C12_NonZeroExitIsAnError ==
    (boot.run.called /\ boot.run.out.status = "returned" /\ ~boot.run.in.broken)
        => /\ boot.run.out.output = boot.run.in.stdout
           /\ boot.run.in.exit # 0 => boot.run.out.err # NoErr
           /\ boot.run.in.exit = 0 => boot.run.out.err = NoErr

C12_Witness ==
    /\ boot.run.called /\ boot.run.out.status = "returned" /\ ~boot.run.in.broken
    /\ boot.run.in.exit = 1
    /\ boot.run.out.output = <<"h", "i", "LF">>
    /\ boot.run.out.err = "Process exited with status 1"

\* C13: after a download that completes without error the local file named
\* by the base name of the remote file holds exactly the bytes of the remote
\* file, in order, whatever the local file held before (or absent), and no
\* other local file is touched.
C13_DownloadedFileIsCopy ==
    [][(KeyEnter /\ last'.outcome = "downloaded")
         => /\ local'[last'.sel.name] =
                   FileOf(remote[Join(last'.from, last'.sel.name)].data)
            /\ \A f \in LocalNames \ {last'.sel.name} : local'[f] = local[f]]_vars

C13_Witness ==
    /\ last.outcome = "downloaded" /\ last.sel.name = "notes.txt"
    /\ remote[<<"home", "user", "notes.txt">>] = FileOf(<<2>>)
    /\ local["notes.txt"] = FileOf(<<2>>)

\* C14: in every reachable state whose currentDir is not the remote root,
\* the first item is the synthetic parent entry "..".
C14_ParentEntryFirst ==
    m.currentDir # Root
        => /\ Len(m.items) >= 1
           /\ IsParentMarker(m.items[1])
           /\ m.items[1].title = ".."

C14_Witness ==
    /\ last.outcome = "moved"
    /\ m.currentDir = <<"home", "user", "docs">>
    /\ Len(m.items) = 1 /\ IsParentMarker(m.items[1])

\* C15: from any state whose selection is the synthetic parent entry, enter
\* and backspace lead to the same NavigationState (currentDir and items), and
\* fail alike, against the same remote filesystem and the same fault.
C15_EnterOnParentIsBackspace ==
    (pc = "running" /\ HasSelection(m) /\ IsParentMarker(SelectedItem(m)))
        => \A f \in NavFaults :
             LET e == UpdateEnter(m, remote, local, f, "none", 0, FALSE)
                 b == UpdateBackspace(m, remote, f)
             IN /\ NavState(e.m) = NavState(b.m)
                /\ (e.pc = "aborted") = b.aborted

C15_Witness ==
    /\ last.msg = "enter" /\ IsParentMarker([rawValue |-> last.sel])
    /\ last.outcome = "moved" /\ last.from = HomeUser
    /\ m.currentDir = <<"home">>
    /\ NavState(m) = NavState(UpdateBackspace([m EXCEPT !.currentDir = HomeUser],
                                              remote, "none").m)

\* C16: in every reachable state items is the parent entry followed by the
\* entries of one single listing response for currentDir, in its order, with
\* nothing of another listing in it.
C16_ItemsAreOneListingOfCurrentDir ==
    \E fs \in RemoteStates :
        m.items = createItemListModel(fs, m.currentDir, "none").items

\* C17: every operation against the session is made by a synchronous call
\* inside the handler of one event, so it has finished when the handler
\* returns, and none of the commands a handler returns (which run beside the
\* event loop) is an operation against the session.
C17_NoSessionOperationInCommands ==
    /\ \A i \in 1..Len(last.cmds) : last.cmds[i] \notin SessionOps
    /\ \A i \in 1..Len(last.ops) : last.ops[i].op \in SessionOps
    /\ last.ops # <<>> => last.msg \in {"enter", "backspace"}

C17_Witness ==
    /\ last.outcome = "moved"
    /\ Len(last.ops) = 2
    /\ last.cmds = <<"SetItems", "StatusMessage", "IncrPercent">>

\* C18: the handling of a window resize, of a progress frame, of ctrl+c and
\* of a key other than backspace and enter leaves currentDir and items as they
\* were and makes no call to the session.
C18_OnlyNavigationChangesNavState ==
    [][(KeyCtrlC \/ KeyOther \/ Frame \/ WindowSize)
         => /\ NavState(m') = NavState(m)
            /\ last'.ops = <<>>
            /\ local' = local]_vars

C18_Witness ==
    /\ last.msg = "resize"
    /\ m.width = 76 /\ m.height = 22
    /\ m.currentDir = <<"home", "user", "docs">>
    /\ last.ops = <<>>

\* C19: every call a navigation makes to the session, the listing of the
\* new directory as well as the resolution of its path, goes through the
\* client the model holds (m.sftpClient).
C19_ListingThroughModelClient ==
    \A i \in 1..Len(last.ops) : last.ops[i].via = "m.sftpClient"

\* C20: in every reachable state of the running program the selection of
\* the list is an entry of items, and no enter is handled without a selected
\* entry to act on.
C20_SelectionAlwaysValid ==
    /\ pc = "running" => HasSelection(m)
    /\ ~(last.msg = "enter" /\ last.outcome = "panic")

====
